---- MODULE Spec2Model ----
(***************************************************************************)
(* Model of the SMS gateway API client (src/src/client.ts) and of the      *)
(* transport seam it talks to (src/src/http.ts).                           *)
(*                                                                         *)
(* Strings are TLA+ strings; a character is a string of length one and is  *)
(* read with SubSeq(s, i, i).  A JavaScript object is a function from its  *)
(* own keys to values, so that the set of keys is DOMAIN.  An optional     *)
(* value is a sequence of length zero (undefined) or one.                  *)
(***************************************************************************)
EXTENDS Integers, Sequences, FiniteSets, TLC

(***************************************************************************)
(* Characters                                                              *)
(***************************************************************************)
Char(s, i) == SubSeq(s, i, i)

\* printable ASCII in code order: codes 32 (space) to 95 (_), and codes 97 (a)
\* to 126 (~); code 96 cannot be written in a string of this language and is
\* outside the alphabet of the model
AsciiLow ==
    " !\"#$%&'()*+,-./0123456789:;<=>?@ABCDEFGHIJKLMNOPQRSTUVWXYZ[\\]^_"
AsciiHigh == "abcdefghijklmnopqrstuvwxyz{|}~"

HexDigits == "0123456789ABCDEF"

AsciiChars ==
    {Char(AsciiLow, i) : i \in 1..Len(AsciiLow)}
        \cup {Char(AsciiHigh, i) : i \in 1..Len(AsciiHigh)}

\* the code unit of each printable ASCII character, and the inverse table
CharCodeTable ==
    [c \in AsciiChars |->
        IF \E i \in 1..Len(AsciiLow) : Char(AsciiLow, i) = c
        THEN 31 + (CHOOSE i \in 1..Len(AsciiLow) : Char(AsciiLow, i) = c)
        ELSE 96 + (CHOOSE i \in 1..Len(AsciiHigh) : Char(AsciiHigh, i) = c)]

FromCharCodeTable ==
    [n \in (32..95) \cup (97..126) |->
        IF n <= 95 THEN Char(AsciiLow, n - 31) ELSE Char(AsciiHigh, n - 96)]

CharCode(c) == CharCodeTable[c]
FromCharCode(n) == FromCharCodeTable[n]

IsUpper(c) == CharCode(c) \in 65..90
IsLower(c) == CharCode(c) \in 97..122
IsAlpha(c) == IsUpper(c) \/ IsLower(c)
IsDigit(c) == CharCode(c) \in 48..57
IsAlnum(c) == IsAlpha(c) \/ IsDigit(c)

DigitValue(c) == CharCode(c) - 48
DigitChar(n) == FromCharCode(48 + n)

ToLowerChar(c) == IF IsUpper(c) THEN FromCharCode(CharCode(c) + 32) ELSE c

RECURSIVE ToLowerCase(_)
ToLowerCase(s) ==
    IF Len(s) = 0 THEN ""
    ELSE ToLowerChar(Char(s, 1)) \o ToLowerCase(SubSeq(s, 2, Len(s)))

\* position of the first character of s that belongs to the set stops,
\* Len(s) + 1 when there is none
RECURSIVE FindFirst(_, _, _)
FindFirst(s, stops, i) ==
    IF i > Len(s) THEN Len(s) + 1
    ELSE IF Char(s, i) \in stops THEN i
    ELSE FindFirst(s, stops, i + 1)

\* "%XX" for a character
PercentEncodeChar(c) ==
    "%" \o Char(HexDigits, (CharCode(c) \div 16) + 1)
        \o Char(HexDigits, (CharCode(c) % 16) + 1)

StartsWith(s, p) == Len(s) >= Len(p) /\ SubSeq(s, 1, Len(p)) = p
EndsWith(s, p) == Len(s) >= Len(p) /\ SubSeq(s, Len(s) - Len(p) + 1, Len(s)) = p

(***************************************************************************)
(* btoa: base64 of a string of code units below 256                        *)
(***************************************************************************)
Base64Alphabet ==
    "ABCDEFGHIJKLMNOPQRSTUVWXYZabcdefghijklmnopqrstuvwxyz0123456789+/"

B64(n) == Char(Base64Alphabet, n + 1)

RECURSIVE btoa(_)
btoa(s) ==
    IF Len(s) = 0 THEN ""
    ELSE IF Len(s) = 1 THEN
        LET a == CharCode(Char(s, 1))
        IN  B64(a \div 4) \o B64((a % 4) * 16) \o "=="
    ELSE IF Len(s) = 2 THEN
        LET a == CharCode(Char(s, 1))
            b == CharCode(Char(s, 2))
        IN  B64(a \div 4) \o B64((a % 4) * 16 + b \div 16)
              \o B64((b % 16) * 4) \o "="
    ELSE
        LET a == CharCode(Char(s, 1))
            b == CharCode(Char(s, 2))
            c == CharCode(Char(s, 3))
        IN  B64(a \div 4) \o B64((a % 4) * 16 + b \div 16)
              \o B64((b % 16) * 4 + c \div 64) \o B64(c % 64)
              \o btoa(SubSeq(s, 4, Len(s)))

(***************************************************************************)
(* Date.prototype.toISOString                                              *)
(*                                                                         *)
(* A Date holds a time value t, milliseconds since the epoch, or NaN.  The *)
(* time value is kept as the pair Day(t) = floor(t / msPerDay) and         *)
(* TimeWithinDay(t) = t modulo 86400000, which is how the language         *)
(* definition takes it apart; an invalid Date has valid = FALSE.           *)
(***************************************************************************)
MakeDate(d, ms) == [valid |-> TRUE, day |-> d, msec |-> ms]
InvalidDate == [valid |-> FALSE, day |-> 0, msec |-> 0]

DaysInYear(y) ==
    IF y % 4 # 0 THEN 365
    ELSE IF y % 100 # 0 THEN 366
    ELSE IF y % 400 # 0 THEN 365
    ELSE 366

DayFromYear(y) ==
    365 * (y - 1970) + ((y - 1969) \div 4) - ((y - 1901) \div 100)
        + ((y - 1601) \div 400)

\* the largest year whose first day is not after day d
YearFromTime(d) ==
    LET lo == 1970 + (d \div 366) - 1
        hi == 1970 + (d \div 365) + 1
    IN  CHOOSE y \in lo..hi : DayFromYear(y) <= d /\ d < DayFromYear(y + 1)

\* days before the first day of month m (0 = January) in a year
MonthStart(m, leap) ==
    LET t == <<0, 31, 59, 90, 120, 151, 181, 212, 243, 273, 304, 334, 365>>
    IN  IF m <= 1 THEN t[m + 1] ELSE t[m + 1] + leap

MonthFromTime(d) ==
    LET y == YearFromTime(d)
        leap == DaysInYear(y) - 365
        dy == d - DayFromYear(y)
    IN  CHOOSE m \in 0..11 :
            MonthStart(m, leap) <= dy /\ dy < MonthStart(m + 1, leap)

DateFromTime(d) ==
    LET y == YearFromTime(d)
        leap == DaysInYear(y) - 365
    IN  d - DayFromYear(y) - MonthStart(MonthFromTime(d), leap) + 1

\* decimal rendering of n >= 0, left-padded with zeros to width w
RECURSIVE Pad(_, _)
Pad(n, w) ==
    IF w <= 1 /\ n < 10 THEN DigitChar(n)
    ELSE Pad(n \div 10, w - 1) \o DigitChar(n % 10)

YearString(y) ==
    IF y >= 0 /\ y <= 9999 THEN Pad(y, 4)
    ELSE IF y < 0 THEN "-" \o Pad(0 - y, 6)
    ELSE "+" \o Pad(y, 6)

\* the result of toISOString on a valid Date; on an invalid Date the call
\* throws RangeError, see Throws below
toISOString(date) ==
    LET d == date.day
        ms == date.msec
    IN  YearString(YearFromTime(d)) \o "-" \o Pad(MonthFromTime(d) + 1, 2)
          \o "-" \o Pad(DateFromTime(d), 2)
          \o "T" \o Pad(ms \div 3600000, 2)
          \o ":" \o Pad((ms \div 60000) % 60, 2)
          \o ":" \o Pad((ms \div 1000) % 60, 2)
          \o "." \o Pad(ms % 1000, 3) \o "Z"

(***************************************************************************)
(* new URL(string), url.searchParams.append(name, value), url.toString()   *)
(*                                                                         *)
(* The URL parser of the platform, for an input without a base URL, over   *)
(* printable ASCII.  It is modelled for the special schemes that have an   *)
(* authority (http, https, ws, wss, ftp) and for inputs without a scheme,  *)
(* with a host that is a registered name (no credentials, no IPv4 or IPv6  *)
(* literal, no percent-escape in the host); the base URLs of the model are *)
(* drawn from this domain.                                                 *)
(***************************************************************************)
Slashes == {"/", "\\"}
AuthorityEnd == {"/", "\\", "?", "#"}
SchemeChars == {"+", "-", "."}
ForbiddenHostChars ==
    {" ", "#", "/", ":", "<", ">", "?", "@", "[", "\\", "]", "^", "|", "%"}
PathPercentEncodeSet == {" ", "\"", "#", "<", ">", "?", "{", "}"}
QueryPercentEncodeSet == {" ", "\"", "#", "<", ">", "'"}
FormUrlencodedKeep == {"*", "-", ".", "_"}

IsSpecialScheme(scheme) == scheme \in {"http", "https", "ws", "wss", "ftp"}

DefaultPort(scheme) ==
    CASE scheme = "http" -> 80
      [] scheme = "ws" -> 80
      [] scheme = "https" -> 443
      [] scheme = "wss" -> 443
      [] scheme = "ftp" -> 21
      [] OTHER -> -1

InvalidURL ==
    [ok |-> FALSE, scheme |-> "", host |-> "", port |-> -1, path |-> << >>,
     query |-> << >>, fragment |-> << >>, params |-> << >>]

\* the end of the scheme: the position of the ":" that closes a well-formed
\* scheme at the start of s, 0 when s does not start with a scheme
RECURSIVE SchemeEnd(_, _)
SchemeEnd(s, i) ==
    IF i > Len(s) THEN 0
    ELSE IF i = 1 THEN (IF IsAlpha(Char(s, 1)) THEN SchemeEnd(s, 2) ELSE 0)
    ELSE IF Char(s, i) = ":" THEN i
    ELSE IF IsAlnum(Char(s, i)) \/ Char(s, i) \in SchemeChars
         THEN SchemeEnd(s, i + 1)
    ELSE 0

\* first position at or after i that holds no slash or backslash
RECURSIVE SkipSlashes(_, _)
SkipSlashes(s, i) ==
    IF i <= Len(s) /\ Char(s, i) \in Slashes THEN SkipSlashes(s, i + 1) ELSE i

\* position of the last ":" of s, 0 when there is none
RECURSIVE LastColon(_, _)
LastColon(s, i) ==
    IF i = 0 THEN 0 ELSE IF Char(s, i) = ":" THEN i ELSE LastColon(s, i - 1)

RECURSIVE AllDigits(_)
AllDigits(s) ==
    Len(s) = 0 \/ (IsDigit(Char(s, 1)) /\ AllDigits(SubSeq(s, 2, Len(s))))

\* the value of a string of digits, capped above the largest port
RECURSIVE ParseNumber(_, _)
ParseNumber(s, acc) ==
    IF Len(s) = 0 \/ acc > 65535 THEN acc
    ELSE ParseNumber(SubSeq(s, 2, Len(s)),
                     acc * 10 + DigitValue(Char(s, 1)))

RECURSIVE PercentEncode(_, _)
PercentEncode(s, encodeSet) ==
    IF Len(s) = 0 THEN ""
    ELSE (IF Char(s, 1) \in encodeSet THEN PercentEncodeChar(Char(s, 1))
          ELSE Char(s, 1))
         \o PercentEncode(SubSeq(s, 2, Len(s)), encodeSet)

IsSingleDot(seg) == ToLowerCase(seg) \in {".", "%2e"}
IsDoubleDot(seg) == ToLowerCase(seg) \in {"..", ".%2e", "%2e.", "%2e%2e"}

\* path state: s is the input from the end of the authority up to the query
\* or fragment, i the position read, buf the segment being collected
RECURSIVE ParsePath(_, _, _, _)
ParsePath(s, i, buf, path) ==
    LET atEnd == i > Len(s)
        popped == IF Len(path) > 0 THEN SubSeq(path, 1, Len(path) - 1) ELSE path
        next ==
            IF IsDoubleDot(buf)
            THEN (IF atEnd THEN Append(popped, "") ELSE popped)
            ELSE IF IsSingleDot(buf)
            THEN (IF atEnd THEN Append(path, "") ELSE path)
            ELSE Append(path, PercentEncode(buf, PathPercentEncodeSet))
    IN  IF atEnd THEN next
        ELSE IF Char(s, i) \in Slashes THEN ParsePath(s, i + 1, "", next)
        ELSE ParsePath(s, i + 1, buf \o Char(s, i), path)

HostIsValid(host) ==
    /\ Len(host) > 0
    /\ \A i \in 1..Len(host) : Char(host, i) \notin ForbiddenHostChars

ParseURL(s) ==
    LET colon == SchemeEnd(s, 1)
        scheme == ToLowerCase(SubSeq(s, 1, colon - 1))
        authStart == SkipSlashes(s, colon + 1)
        authEnd == FindFirst(s, AuthorityEnd, authStart)
        authority == SubSeq(s, authStart, authEnd - 1)
        portColon == LastColon(authority, Len(authority))
        hostRaw == IF portColon = 0 THEN authority
                   ELSE SubSeq(authority, 1, portColon - 1)
        portRaw == IF portColon = 0 THEN ""
                   ELSE SubSeq(authority, portColon + 1, Len(authority))
        portNum == IF Len(portRaw) = 0 THEN -1 ELSE ParseNumber(portRaw, 0)
        pathEnd == FindFirst(s, {"?", "#"}, authEnd)
        pathRaw == SubSeq(s, authEnd, pathEnd - 1)
        pathBody == IF Len(pathRaw) > 0 /\ Char(pathRaw, 1) \in Slashes
                    THEN SubSeq(pathRaw, 2, Len(pathRaw)) ELSE pathRaw
        queryEnd == FindFirst(s, {"#"}, pathEnd)
        hasQuery == pathEnd <= Len(s) /\ Char(s, pathEnd) = "?"
        hasFragment == queryEnd <= Len(s)
    IN  IF colon = 0 \/ ~IsSpecialScheme(scheme) THEN InvalidURL
        ELSE IF ~HostIsValid(hostRaw) THEN InvalidURL
        ELSE IF ~AllDigits(portRaw) \/ portNum > 65535 THEN InvalidURL
        ELSE [ok |-> TRUE,
              scheme |-> scheme,
              host |-> ToLowerCase(hostRaw),
              port |-> IF portNum = DefaultPort(scheme) THEN -1 ELSE portNum,
              path |-> ParsePath(pathBody, 1, "", << >>),
              query |-> IF hasQuery
                        THEN <<PercentEncode(SubSeq(s, pathEnd + 1, queryEnd - 1),
                                             QueryPercentEncodeSet)>>
                        ELSE << >>,
              fragment |-> IF hasFragment
                           THEN <<SubSeq(s, queryEnd + 1, Len(s))>> ELSE << >>,
              params |-> << >>]

\* application/x-www-form-urlencoded byte serialisation
RECURSIVE FormUrlencode(_)
FormUrlencode(s) ==
    IF Len(s) = 0 THEN ""
    ELSE LET c == Char(s, 1)
         IN  (IF c = " " THEN "+"
              ELSE IF IsAlnum(c) \/ c \in FormUrlencodedKeep THEN c
              ELSE PercentEncodeChar(c))
             \o FormUrlencode(SubSeq(s, 2, Len(s)))

RECURSIVE SerializeParams(_)
SerializeParams(params) ==
    IF Len(params) = 0 THEN ""
    ELSE FormUrlencode(params[1][1]) \o "=" \o FormUrlencode(params[1][2])
         \o (IF Len(params) = 1 THEN "" ELSE "&" \o SerializeParams(Tail(params)))

\* url.searchParams.append(name, value): the pair joins the list of the
\* URL's search parameters and the URL's query becomes the serialised list.
\* The list starts empty because the URLs of the model have no query when
\* they are parsed.
searchParamsAppend(url, name, value) ==
    LET list == Append(url.params, <<name, value>>)
    IN  [url EXCEPT !.params = list, !.query = <<SerializeParams(list)>>]

RECURSIVE SerializePath(_)
SerializePath(path) ==
    IF Len(path) = 0 THEN "" ELSE "/" \o path[1] \o SerializePath(Tail(path))

\* decimal rendering of n >= 0 without padding
NumberToString(n) == Pad(n, 1)

\* url.toString(): the URL serialiser
URLtoString(url) ==
    url.scheme \o "://" \o url.host
      \o (IF url.port = -1 THEN "" ELSE ":" \o NumberToString(url.port))
      \o SerializePath(url.path)
      \o (IF Len(url.query) = 0 THEN "" ELSE "?" \o url.query[1])
      \o (IF Len(url.fragment) = 0 THEN "" ELSE "#" \o url.fragment[1])

\* encodeURIComponent over printable ASCII
UriUnreserved == {"-", "_", ".", "!", "~", "*", "'", "(", ")"}

RECURSIVE encodeURIComponent(_)
encodeURIComponent(s) ==
    IF Len(s) = 0 THEN ""
    ELSE (IF IsAlnum(Char(s, 1)) \/ Char(s, 1) \in UriUnreserved
          THEN Char(s, 1) ELSE PercentEncodeChar(Char(s, 1)))
         \o encodeURIComponent(SubSeq(s, 2, Len(s)))

(***************************************************************************)
(* JavaScript objects                                                      *)
(***************************************************************************)
Undefined == << >>
Some(v) == <<v>>
IsUndefined(v) == Len(v) = 0

\* obj.key for a property that is stored as an optional (it may be present
\* and hold undefined): undefined as well when the key is missing
Get(obj, key) == IF key \in DOMAIN obj THEN obj[key] ELSE Undefined

\* { ...first, ...second }: the keys of both, second winning
ObjectSpread(first, second) ==
    [k \in DOMAIN first \cup DOMAIN second |->
        IF k \in DOMAIN second THEN second[k] ELSE first[k]]

\* Boolean.prototype.toString
BooleanToString(b) == IF b THEN "true" ELSE "false"

\* stands for the value null inside request objects
Null == "null"

(***************************************************************************)
(* The client: src/src/client.ts                                           *)
(***************************************************************************)
BASE_URL == "https://api.sms-gate.app/3rdparty/v1"

VARIABLES
    ctor,            \* the arguments the constructor was called with
    baseUrl,         \* Client.baseUrl
    httpClient,      \* Client.httpClient, the identity of the transport
    defaultHeaders,  \* Client.defaultHeaders
    other,           \* a second instance of Client: the arguments of its
                     \* constructor and its three fields
    clientOf,        \* for each caller, the instance it invokes operations on
    ops,             \* for each caller, the operation it last invoked
    invocations,     \* number of method invocations so far
    requests         \* number of calls the transport has received so far

vars ==
    <<ctor, baseUrl, httpClient, defaultHeaders, other, clientOf, ops,
      invocations, requests>>

\* the constructor with the separator between login and password left out
Client_NoSeparator(login, password, transport, baseUrlArg) ==
    [baseUrl |-> IF IsUndefined(baseUrlArg) THEN BASE_URL ELSE baseUrlArg[1],
     httpClient |-> transport,
     defaultHeaders |->
        ("User-Agent" :> "android-sms-gateway/2.0 (client; js)")
        @@ ("Authorization" :> ("Basic " \o btoa(login \o password)))]

\* a constructor without the default for the base URL
Client_BaseUrlRequired(login, password, transport, baseUrlArg) ==
    [baseUrl |-> IF IsUndefined(baseUrlArg) THEN "" ELSE baseUrlArg[1],
     httpClient |-> transport,
     defaultHeaders |->
        ("User-Agent" :> "android-sms-gateway/2.0 (client; js)")
        @@ ("Authorization" :> ("Basic " \o btoa(login \o ":" \o password)))]

\* a constructor that stores a content type among the default headers
Client_StoredContentType(login, password, transport, baseUrlArg) ==
    [baseUrl |-> IF IsUndefined(baseUrlArg) THEN BASE_URL ELSE baseUrlArg[1],
     httpClient |-> transport,
     defaultHeaders |->
        ("User-Agent" :> "android-sms-gateway/2.0 (client; js)")
        @@ ("Content-Type" :> "text/plain")
        @@ ("Authorization" :> ("Basic " \o btoa(login \o ":" \o password)))]

\* constructor(login, password, httpClient, baseUrl = BASE_URL); the last
\* argument is optional
Client(login, password, transport, baseUrlArg) ==
    [baseUrl |-> IF IsUndefined(baseUrlArg) THEN BASE_URL ELSE baseUrlArg[1],
     httpClient |-> transport,
     defaultHeaders |->
        ("User-Agent" :> "android-sms-gateway/2.0 (client; js)")
        @@ ("Authorization" :> ("Basic " \o btoa(login \o ":" \o password)))]

(***************************************************************************)
(* What one invocation of a method does before it suspends: either it      *)
(* throws, and the promise of the async method is rejected with the error  *)
(* without any call on the transport, or it makes one call on the          *)
(* transport and returns the transport's promise.                          *)
(***************************************************************************)
Throws(error) == [thrown |-> Some(error), call |-> Undefined]

\* the call handing the stored defaultHeaders object itself to the transport
HttpCall_StoredHeaders(this, verb, url, headers) ==
    IF IsUndefined(this.httpClient) THEN Throws("TypeError")
    ELSE [thrown |-> Undefined,
          call |-> Some([on |-> this.httpClient[1], verb |-> verb, url |-> url,
                         body |-> Undefined, headers |-> this.defaultHeaders,
                         headersObject |-> "defaultHeaders"])]

\* this.httpClient.get(url, headers) and this.httpClient.delete(url, headers);
\* without a transport the property access on undefined throws. headers is
\* the object the object literal of the method created for this call, not
\* the object stored in defaultHeaders
HttpCall(this, verb, url, headers) ==
    IF IsUndefined(this.httpClient) THEN Throws("TypeError")
    ELSE [thrown |-> Undefined,
          call |-> Some([on |-> this.httpClient[1], verb |-> verb, url |-> url,
                         body |-> Undefined, headers |-> headers,
                         headersObject |-> "literal"])]

\* this.httpClient.post, put and patch (url, body, headers)
HttpCallWithBody(this, verb, url, body, headers) ==
    IF IsUndefined(this.httpClient) THEN Throws("TypeError")
    ELSE [thrown |-> Undefined,
          call |-> Some([on |-> this.httpClient[1], verb |-> verb, url |-> url,
                         body |-> Some(body), headers |-> headers,
                         headersObject |-> "literal"])]

\* send testing the option for truthiness instead of comparing it with
\* undefined
send_TruthyOption(this, request, options) ==
    LET url == ParseURL(this.baseUrl \o "/message")
        skipPhoneValidation ==
            IF IsUndefined(options) THEN Undefined
            ELSE Get(options[1], "skipPhoneValidation")
        url2 == IF skipPhoneValidation = Some(TRUE)
                THEN searchParamsAppend(url, "skipPhoneValidation",
                                        BooleanToString(skipPhoneValidation[1]))
                ELSE url
        headers == ObjectSpread("Content-Type" :> "application/json",
                                this.defaultHeaders)
    IN  IF ~url.ok THEN Throws("TypeError")
        ELSE HttpCallWithBody(this, "POST", URLtoString(url2), request, headers)

\* send filling in the documented default of withDeliveryReport
send_DefaultedFields(this, request, options) ==
    LET url == ParseURL(this.baseUrl \o "/message")
        skipPhoneValidation ==
            IF IsUndefined(options) THEN Undefined
            ELSE Get(options[1], "skipPhoneValidation")
        url2 == IF ~IsUndefined(skipPhoneValidation)
                THEN searchParamsAppend(url, "skipPhoneValidation",
                                        BooleanToString(skipPhoneValidation[1]))
                ELSE url
        headers == ObjectSpread("Content-Type" :> "application/json",
                                this.defaultHeaders)
    IN  IF ~url.ok THEN Throws("TypeError")
        ELSE HttpCallWithBody(this, "POST", URLtoString(url2),
                 ObjectSpread("withDeliveryReport" :> TRUE, request), headers)

send(this, request, options) ==
    LET url == ParseURL(this.baseUrl \o "/message")
        skipPhoneValidation ==
            IF IsUndefined(options) THEN Undefined
            ELSE Get(options[1], "skipPhoneValidation")
        url2 == IF ~IsUndefined(skipPhoneValidation)
                THEN searchParamsAppend(url, "skipPhoneValidation",
                                        BooleanToString(skipPhoneValidation[1]))
                ELSE url
        headers == ObjectSpread("Content-Type" :> "application/json",
                                this.defaultHeaders)
    IN  IF ~url.ok THEN Throws("TypeError")
        ELSE HttpCallWithBody(this, "POST", URLtoString(url2), request, headers)

\* getState escaping the identifier
getState_EncodedId(this, messageId) ==
    LET url == this.baseUrl \o "/message/" \o encodeURIComponent(messageId)
        headers == ObjectSpread(<< >>, this.defaultHeaders)
    IN  HttpCall(this, "GET", url, headers)

getState(this, messageId) ==
    LET url == this.baseUrl \o "/message/" \o messageId
        headers == ObjectSpread(<< >>, this.defaultHeaders)
    IN  HttpCall(this, "GET", url, headers)

getWebhooks(this) ==
    LET url == this.baseUrl \o "/webhooks"
        headers == ObjectSpread(<< >>, this.defaultHeaders)
    IN  HttpCall(this, "GET", url, headers)

registerWebhook(this, request) ==
    LET url == this.baseUrl \o "/webhooks"
        headers == ObjectSpread("Content-Type" :> "application/json",
                                this.defaultHeaders)
    IN  HttpCallWithBody(this, "POST", url, request, headers)

deleteWebhook(this, webhookId) ==
    LET url == this.baseUrl \o "/webhooks/" \o webhookId
        headers == ObjectSpread(<< >>, this.defaultHeaders)
    IN  HttpCall(this, "DELETE", url, headers)

getDevices(this) ==
    LET url == this.baseUrl \o "/devices"
        headers == ObjectSpread(<< >>, this.defaultHeaders)
    IN  HttpCall(this, "GET", url, headers)

deleteDevice(this, deviceId) ==
    LET url == this.baseUrl \o "/devices/" \o deviceId
        headers == ObjectSpread(<< >>, this.defaultHeaders)
    IN  HttpCall(this, "DELETE", url, headers)

\* getHealth numbering its requests in a header
getHealth_Numbered(this) ==
    LET url == this.baseUrl \o "/health"
        headers == ObjectSpread("X-Request-Id" :> NumberToString(requests),
                                this.defaultHeaders)
    IN  HttpCall(this, "GET", url, headers)

getHealth(this) ==
    LET url == this.baseUrl \o "/health"
        headers == ObjectSpread(<< >>, this.defaultHeaders)
    IN  HttpCall(this, "GET", url, headers)

\* exportInbox copying the request and overwriting the two dates
exportInbox_SpreadRequest(this, request) ==
    LET url == this.baseUrl \o "/inbox/export"
        headers == ObjectSpread("Content-Type" :> "application/json",
                                this.defaultHeaders)
    IN  IF ~request.since.valid \/ ~request.until.valid
        THEN Throws("RangeError")
        ELSE HttpCallWithBody(this, "POST", url,
                 ObjectSpread(request,
                     [since |-> toISOString(request.since),
                      until |-> toISOString(request.until)]),
                 headers)

exportInbox(this, request) ==
    LET url == this.baseUrl \o "/inbox/export"
        headers == ObjectSpread("Content-Type" :> "application/json",
                                this.defaultHeaders)
    IN  IF ~request.since.valid \/ ~request.until.valid
        THEN Throws("RangeError")
        ELSE HttpCallWithBody(this, "POST", url,
                 [deviceId |-> request.deviceId,
                  since |-> toISOString(request.since),
                  until |-> toISOString(request.until)],
                 headers)

\* getLogs sending an absent filter as an empty value
getLogs_EmptyFilters(this, from, to) ==
    LET url == ParseURL(this.baseUrl \o "/logs")
        url2 == searchParamsAppend(url, "from",
                    IF IsUndefined(from) THEN "" ELSE toISOString(from[1]))
        url3 == searchParamsAppend(url2, "to",
                    IF IsUndefined(to) THEN "" ELSE toISOString(to[1]))
        headers == ObjectSpread(<< >>, this.defaultHeaders)
    IN  IF ~url.ok THEN Throws("TypeError")
        ELSE IF ~IsUndefined(from) /\ ~from[1].valid THEN Throws("RangeError")
        ELSE IF ~IsUndefined(to) /\ ~to[1].valid THEN Throws("RangeError")
        ELSE HttpCall(this, "GET", URLtoString(url3), headers)

\* from and to are optional; a Date object is truthy whatever its time value
getLogs(this, from, to) ==
    LET url == ParseURL(this.baseUrl \o "/logs")
        url2 == IF ~IsUndefined(from)
                THEN searchParamsAppend(url, "from", toISOString(from[1]))
                ELSE url
        url3 == IF ~IsUndefined(to)
                THEN searchParamsAppend(url2, "to", toISOString(to[1]))
                ELSE url2
        headers == ObjectSpread(<< >>, this.defaultHeaders)
    IN  IF ~url.ok THEN Throws("TypeError")
        ELSE IF ~IsUndefined(from) /\ ~from[1].valid THEN Throws("RangeError")
        ELSE IF ~IsUndefined(to) /\ ~to[1].valid THEN Throws("RangeError")
        ELSE HttpCall(this, "GET", URLtoString(url3), headers)

getSettings(this) ==
    LET url == this.baseUrl \o "/settings"
        headers == ObjectSpread(<< >>, this.defaultHeaders)
    IN  HttpCall(this, "GET", url, headers)

\* updateSettings without the content type of its body
updateSettings_NoContentType(this, settings) ==
    LET url == this.baseUrl \o "/settings"
        headers == ObjectSpread(<< >>, this.defaultHeaders)
    IN  HttpCallWithBody(this, "PUT", url, settings, headers)

updateSettings(this, settings) ==
    LET url == this.baseUrl \o "/settings"
        headers == ObjectSpread("Content-Type" :> "application/json",
                                this.defaultHeaders)
    IN  HttpCallWithBody(this, "PUT", url, settings, headers)

\* patchSettings completing the caller's partial object with full settings
patchSettings_Merged(this, settings) ==
    LET url == this.baseUrl \o "/settings"
        headers == ObjectSpread("Content-Type" :> "application/json",
                                this.defaultHeaders)
        fetched == [messages |-> [limitPeriod |-> "PerDay", limitValue |-> 100],
                    webhooks |-> [internetRequired |-> TRUE, retryCount |-> 3]]
    IN  HttpCallWithBody(this, "PATCH", url, ObjectSpread(fetched, settings), headers)

patchSettings(this, settings) ==
    LET url == this.baseUrl \o "/settings"
        headers == ObjectSpread("Content-Type" :> "application/json",
                                this.defaultHeaders)
    IN  HttpCallWithBody(this, "PATCH", url, settings, headers)

\* the methods of the class: the operations an instance can be asked for
Methods ==
    {"send", "getState", "getWebhooks", "registerWebhook", "deleteWebhook",
     "getDevices", "deleteDevice", "getHealth", "exportInbox", "getLogs",
     "getSettings", "updateSettings", "patchSettings"}

(***************************************************************************)
(* The values the operations are invoked with                              *)
(***************************************************************************)
\* bound on the number of method invocations in a behaviour
MaxOps == 3

\* the flows of control of the embedding application; each awaits the
\* operation it invoked before it invokes the next, so that up to two
\* operations are in flight on the client at a time
Callers == {"caller1", "caller2"}

Transport == "httpClient"
OtherTransport == "otherHttpClient"

\* the arguments of the constructor; the last of the configurations leaves
\* out the transport as well as the base URL
Configs ==
    { [login |-> "login", password |-> "password",
       httpClient |-> Some(Transport), baseUrl |-> Undefined],
      [login |-> "", password |-> "jwt.token",
       httpClient |-> Some(Transport),
       baseUrl |-> Some("HTTP://Sms.Local:80/v1")],
      [login |-> "admin", password |-> "p:w",
       httpClient |-> Some(Transport), baseUrl |-> Some("sms.local/v1")],
      [login |-> "login", password |-> "password",
       httpClient |-> Undefined, baseUrl |-> Undefined] }

MessageMinimal == [message |-> "Hello", phoneNumbers |-> <<"+1234567890">>]
MessageFull ==
    [id |-> "m1", message |-> "Hi", ttl |-> 3600,
     phoneNumbers |-> <<"+1234567890", "+1987654321">>,
     simNumber |-> 2, withDeliveryReport |-> FALSE]
MessageEmpty == [message |-> "", phoneNumbers |-> << >>]

NoKeys == [k \in {} |-> Undefined]

SendArgs ==
    { [request |-> MessageMinimal, options |-> Undefined],
      [request |-> MessageFull, options |-> Some(NoKeys)],
      [request |-> MessageMinimal,
       options |-> Some([skipPhoneValidation |-> Undefined])],
      [request |-> MessageEmpty,
       options |-> Some([skipPhoneValidation |-> Some(TRUE)])],
      [request |-> MessageMinimal,
       options |-> Some([skipPhoneValidation |-> Some(FALSE)])] }

Ids == {"123", "a b/?#%"}

WebHookRequests ==
    { [url |-> "https://example.com/webhook", event |-> "sms:received",
       deviceId |-> Null],
      [id |-> "w1", url |-> "not a url", event |-> "system:ping"] }

Date2024 == MakeDate(19723, 0)               \* 2024-01-01T00:00:00.000Z
DateLeap == MakeDate(19782, 86399999)        \* 2024-02-29T23:59:59.999Z

ExportRequests ==
    { [deviceId |-> "test-device-id", since |-> Date2024, until |-> DateLeap,
       extra |-> "x"],
      [deviceId |-> "d2", since |-> DateLeap, until |-> InvalidDate] }

LogsArgs ==
    { [from |-> Undefined, to |-> Undefined],
      [from |-> Some(Date2024), to |-> Undefined],
      [from |-> Undefined, to |-> Some(DateLeap)],
      [from |-> Some(Date2024), to |-> Some(DateLeap)],
      [from |-> Some(InvalidDate), to |-> Some(Date2024)] }

SettingsFull ==
    [messages |-> [limitPeriod |-> "PerDay", limitValue |-> 100],
     webhooks |-> [internetRequired |-> TRUE, retryCount |-> 3]]
SettingsPartial == [messages |-> [limitValue |-> 200]]

SettingsValues == {SettingsFull, SettingsPartial}
PartialSettingsValues == {SettingsPartial, NoKeys}

\* what the transport may resolve with and the errors it may fail with
ResponseValues == {Some("response"), Undefined}
TransportErrors == {"NetworkError", "HttpError"}

(***************************************************************************)
(* State machine                                                           *)
(***************************************************************************)
Idle ==
    [op |-> "none", args |-> NoKeys, call |-> Undefined,
     transport |-> "none", transportValue |-> Undefined,
     transportReason |-> Undefined,
     state |-> "idle", value |-> Undefined, reason |-> Undefined,
     after |-> NoKeys, mapping |-> NoKeys]

\* new Client(...) with the arguments c, as the record of the arguments and
\* of the three fields
New(c) ==
    [ctor |-> c] @@ Client(c.login, c.password, c.httpClient, c.baseUrl)

\* one instance, which every caller uses
Init ==
    \E c \in Configs :
        /\ ctor = c
        /\ baseUrl = New(c).baseUrl
        /\ httpClient = New(c).httpClient
        /\ defaultHeaders = New(c).defaultHeaders
        /\ other = New(c)
        /\ clientOf = [caller \in Callers |-> "client"]
        /\ ops = [caller \in Callers |-> Idle]
        /\ invocations = 0
        /\ requests = 0

\* two instances in one process, with credentials, base URLs and transports
\* of their own; the first caller uses the one, the second the other
TwoClientConfigs ==
    { cd \in Configs \X Configs :
        /\ ~IsUndefined(cd[1].httpClient) /\ ~IsUndefined(cd[2].httpClient)
        /\ IsUndefined(cd[1].baseUrl) /\ ~IsUndefined(cd[2].baseUrl) }

InitTwoClients ==
    \E cd \in TwoClientConfigs :
        LET c == cd[1]
            d == [cd[2] EXCEPT !.httpClient = Some(OtherTransport)]
        IN  /\ ctor = c
            /\ baseUrl = New(c).baseUrl
            /\ httpClient = New(c).httpClient
            /\ defaultHeaders = New(c).defaultHeaders
            /\ other = New(d)
            /\ clientOf = [caller \in Callers |->
                              IF caller = "caller1" THEN "client" ELSE "other"]
            /\ ops = [caller \in Callers |-> Idle]
            /\ invocations = 0
            /\ requests = 0

\* the instances sharing one header set, that of the instance built last
This_SharedHeaders(caller) ==
    IF clientOf[caller] = "client"
    THEN [baseUrl |-> baseUrl, httpClient |-> httpClient,
          defaultHeaders |-> other.defaultHeaders]
    ELSE [baseUrl |-> other.baseUrl, httpClient |-> other.httpClient,
          defaultHeaders |-> other.defaultHeaders]

\* the instance the caller invokes its operations on
This(caller) ==
    IF clientOf[caller] = "client"
    THEN [baseUrl |-> baseUrl, httpClient |-> httpClient,
          defaultHeaders |-> defaultHeaders]
    ELSE [baseUrl |-> other.baseUrl, httpClient |-> other.httpClient,
          defaultHeaders |-> other.defaultHeaders]

\* an invocation that keeps the headers of its call as the default headers
Invoke_StoresHeaders(caller, name, args, outcome) ==
    /\ invocations < MaxOps
    /\ name \in Methods
    /\ ops[caller].state = "idle"
    /\ ops' = [ops EXCEPT ![caller] =
          [op |-> name, args |-> args,
           call |-> outcome.call,
           transport |-> IF IsUndefined(outcome.call) THEN "none" ELSE "pending",
           transportValue |-> Undefined,
           transportReason |-> Undefined,
           state |-> IF IsUndefined(outcome.thrown) THEN "pending" ELSE "rejected",
           value |-> Undefined,
           reason |-> outcome.thrown,
           after |-> args,
           mapping |-> IF IsUndefined(outcome.call) THEN NoKeys
                       ELSE outcome.call[1].headers]]
    /\ invocations' = invocations + 1
    /\ requests' = requests + Len(outcome.call)
    /\ defaultHeaders' = IF IsUndefined(outcome.call) THEN defaultHeaders
                         ELSE outcome.call[1].headers
    /\ UNCHANGED <<ctor, baseUrl, httpClient, other, clientOf>>

\* an invocation in which send fills in a default in the caller's message
Invoke_DefaultsInPlace(caller, name, args, outcome) ==
    /\ invocations < MaxOps
    /\ name \in Methods
    /\ ops[caller].state = "idle"
    /\ ops' = [ops EXCEPT ![caller] =
          [op |-> name, args |-> args,
           call |-> outcome.call,
           transport |-> IF IsUndefined(outcome.call) THEN "none" ELSE "pending",
           transportValue |-> Undefined,
           transportReason |-> Undefined,
           state |-> IF IsUndefined(outcome.thrown) THEN "pending" ELSE "rejected",
           value |-> Undefined,
           reason |-> outcome.thrown,
           after |-> IF name = "send"
                     THEN [args EXCEPT !.request =
                              ObjectSpread(args.request,
                                           "withDeliveryReport" :> TRUE)]
                     ELSE args,
           mapping |-> IF IsUndefined(outcome.call) THEN NoKeys
                       ELSE outcome.call[1].headers]]
    /\ invocations' = invocations + 1
    /\ requests' = requests + Len(outcome.call)
    /\ UNCHANGED <<ctor, baseUrl, httpClient, defaultHeaders, other, clientOf>>

\* an async method is invoked by an idle caller: it runs up to the call on
\* the transport, whose promise it returns, or to the throw that rejects its
\* own promise
Invoke(caller, name, args, outcome) ==
    /\ invocations < MaxOps
    /\ name \in Methods
    /\ ops[caller].state = "idle"
    /\ ops' = [ops EXCEPT ![caller] =
          [op |-> name, args |-> args,
           call |-> outcome.call,
           transport |-> IF IsUndefined(outcome.call) THEN "none" ELSE "pending",
           transportValue |-> Undefined,
           transportReason |-> Undefined,
           state |-> IF IsUndefined(outcome.thrown) THEN "pending" ELSE "rejected",
           value |-> Undefined,
           reason |-> outcome.thrown,
           after |-> args,
           mapping |-> IF IsUndefined(outcome.call) THEN NoKeys
                       ELSE outcome.call[1].headers]]
    /\ invocations' = invocations + 1
    /\ requests' = requests + Len(outcome.call)
    /\ UNCHANGED <<ctor, baseUrl, httpClient, defaultHeaders, other, clientOf>>

Send ==
    \E caller \in Callers, a \in SendArgs :
        Invoke(caller, "send", a, send(This(caller), a.request, a.options))

GetState ==
    \E caller \in Callers, id \in Ids :
        Invoke(caller, "getState", [messageId |-> id],
               getState(This(caller), id))

GetWebhooks ==
    \E caller \in Callers :
        Invoke(caller, "getWebhooks", NoKeys, getWebhooks(This(caller)))

RegisterWebhook ==
    \E caller \in Callers, r \in WebHookRequests :
        Invoke(caller, "registerWebhook", [request |-> r],
               registerWebhook(This(caller), r))

DeleteWebhook ==
    \E caller \in Callers, id \in Ids :
        Invoke(caller, "deleteWebhook", [webhookId |-> id],
               deleteWebhook(This(caller), id))

GetDevices ==
    \E caller \in Callers :
        Invoke(caller, "getDevices", NoKeys, getDevices(This(caller)))

DeleteDevice ==
    \E caller \in Callers, id \in Ids :
        Invoke(caller, "deleteDevice", [deviceId |-> id],
               deleteDevice(This(caller), id))

GetHealth ==
    \E caller \in Callers :
        Invoke(caller, "getHealth", NoKeys, getHealth(This(caller)))

ExportInbox ==
    \E caller \in Callers, r \in ExportRequests :
        Invoke(caller, "exportInbox", [request |-> r],
               exportInbox(This(caller), r))

GetLogs ==
    \E caller \in Callers, a \in LogsArgs :
        Invoke(caller, "getLogs", a, getLogs(This(caller), a.from, a.to))

GetSettings ==
    \E caller \in Callers :
        Invoke(caller, "getSettings", NoKeys, getSettings(This(caller)))

UpdateSettings ==
    \E caller \in Callers, st \in SettingsValues :
        Invoke(caller, "updateSettings", [settings |-> st],
               updateSettings(This(caller), st))

PatchSettings ==
    \E caller \in Callers, st \in PartialSettingsValues :
        Invoke(caller, "patchSettings", [settings |-> st],
               patchSettings(This(caller), st))

\* the transport's promise is fulfilled
TransportResolves ==
    \E caller \in Callers, v \in ResponseValues :
        /\ ops[caller].transport = "pending"
        /\ ops' = [ops EXCEPT ![caller].transport = "resolved",
                              ![caller].transportValue = v]
        /\ UNCHANGED <<ctor, baseUrl, httpClient, defaultHeaders, other, clientOf,
                       invocations, requests>>

\* the transport's promise is rejected
TransportRejects ==
    \E caller \in Callers, e \in TransportErrors :
        /\ ops[caller].transport = "pending"
        /\ ops' = [ops EXCEPT ![caller].transport = "rejected",
                              ![caller].transportReason = Some(e)]
        /\ UNCHANGED <<ctor, baseUrl, httpClient, defaultHeaders, other, clientOf,
                       invocations, requests>>

\* the outcome of the transport's promise, which the method returned
Settled(op) ==
    [op EXCEPT !.state = op.transport,
               !.value = op.transportValue,
               !.reason = op.transportReason]

\* the promise of the method is settled with the outcome of every settled
\* call on the transport, its own or not
OperationSettles_Crossed(caller) ==
    /\ ops[caller].state = "pending"
    /\ \E peer \in Callers :
          /\ ops[peer].transport \in {"resolved", "rejected"}
          /\ ops' = [ops EXCEPT ![caller].state = ops[peer].transport,
                                ![caller].value = ops[peer].transportValue,
                                ![caller].reason = ops[peer].transportReason]
    /\ UNCHANGED <<ctor, baseUrl, httpClient, defaultHeaders, other, clientOf,
                   invocations, requests>>

\* the promise of the method is fulfilled with no value at all
OperationSettles_ValueDropped(caller) ==
    /\ ops[caller].state = "pending"
    /\ ops[caller].transport \in {"resolved", "rejected"}
    /\ ops' = [ops EXCEPT ![caller] =
                  [Settled(ops[caller]) EXCEPT !.value = Undefined]]
    /\ UNCHANGED <<ctor, baseUrl, httpClient, defaultHeaders, other, clientOf,
                   invocations, requests>>

\* the promise of the method is rejected with an error of the client's own
\* in place of the transport's
OperationSettles_Wrapped(caller) ==
    /\ ops[caller].state = "pending"
    /\ ops[caller].transport \in {"resolved", "rejected"}
    /\ ops' = [ops EXCEPT ![caller] =
                  IF ops[caller].transport = "rejected"
                  THEN [Settled(ops[caller]) EXCEPT
                            !.reason = Some("ClientError")]
                  ELSE Settled(ops[caller])]
    /\ UNCHANGED <<ctor, baseUrl, httpClient, defaultHeaders, other, clientOf,
                   invocations, requests>>

\* the promise of the method is rejected by a timer of the client while
\* the call on the transport is still pending
OperationSettles_Timeout(caller) ==
    /\ ops[caller].state = "pending"
    /\ ops' = [ops EXCEPT ![caller] =
                  IF ops[caller].transport = "pending"
                  THEN [ops[caller] EXCEPT !.state = "rejected",
                                           !.reason = Some("TimeoutError")]
                  ELSE Settled(ops[caller])]
    /\ UNCHANGED <<ctor, baseUrl, httpClient, defaultHeaders, other, clientOf,
                   invocations, requests>>

\* the promise of the method is settled only when the call on the
\* transport succeeded
OperationSettles_SuccessOnly(caller) ==
    /\ ops[caller].state = "pending"
    /\ ops[caller].transport = "resolved"
    /\ ops' = [ops EXCEPT ![caller] = Settled(ops[caller])]
    /\ UNCHANGED <<ctor, baseUrl, httpClient, defaultHeaders, other, clientOf,
                   invocations, requests>>

\* return this.httpClient.post(...): the promise of the async method adopts
\* the outcome of the transport's promise in a job of its own, once that
\* promise is settled
OperationSettles(caller) ==
    /\ ops[caller].state = "pending"
    /\ ops[caller].transport \in {"resolved", "rejected"}
    /\ ops' = [ops EXCEPT ![caller] = Settled(ops[caller])]
    /\ UNCHANGED <<ctor, baseUrl, httpClient, defaultHeaders, other, clientOf,
                   invocations, requests>>

\* the caller's await completes: it has the outcome of its operation and is
\* free to invoke the next one
CallerContinues ==
    \E caller \in Callers :
        /\ ops[caller].state \in {"resolved", "rejected"}
        /\ ops' = [ops EXCEPT ![caller] = Idle]
        /\ UNCHANGED <<ctor, baseUrl, httpClient, defaultHeaders, other, clientOf,
                       invocations, requests>>

Next ==
    \/ Send
    \/ GetState
    \/ GetWebhooks
    \/ RegisterWebhook
    \/ DeleteWebhook
    \/ GetDevices
    \/ DeleteDevice
    \/ GetHealth
    \/ ExportInbox
    \/ GetLogs
    \/ GetSettings
    \/ UpdateSettings
    \/ PatchSettings
    \/ TransportResolves
    \/ TransportRejects
    \/ \E caller \in Callers : OperationSettles(caller)
    \/ CallerContinues

Spec == Init /\ [][Next]_vars

\* the same operations on two instances
TwoClientsSpec == InitTwoClients /\ [][Next]_vars

\* what a transport that edits the header mapping it was handed leaves in
\* it: an entry deleted, one changed and one added
Tampered(headers) ==
    [key \in (DOMAIN headers \ {"User-Agent"}) \cup {"X-Trace"} |->
        IF key = "Authorization" THEN "Bearer other"
        ELSE IF key = "X-Trace" THEN "1"
        ELSE headers[key]]

\* the transport edits the mapping it received with the caller's call. The
\* object is the one the method created for that call; were it the stored
\* defaultHeaders object, the stored headers and every other call that was
\* handed the same object would change with it
TransportEditsHeaders ==
    \E caller \in Callers :
        /\ ~IsUndefined(ops[caller].call)
        /\ ops[caller].mapping = ops[caller].call[1].headers
        /\ LET stored == ops[caller].call[1].headersObject = "defaultHeaders"
               same(peer) ==
                   /\ stored
                   /\ clientOf[peer] = clientOf[caller]
                   /\ ~IsUndefined(ops[peer].call)
                   /\ ops[peer].call[1].headersObject = "defaultHeaders"
           IN  /\ ops' = [peer \in Callers |->
                            IF peer = caller \/ same(peer)
                            THEN [ops[peer] EXCEPT
                                     !.mapping = Tampered(ops[caller].mapping)]
                            ELSE ops[peer]]
               /\ defaultHeaders' =
                     IF stored /\ clientOf[caller] = "client"
                     THEN Tampered(defaultHeaders) ELSE defaultHeaders
               /\ other' =
                     IF stored /\ clientOf[caller] = "other"
                     THEN [other EXCEPT
                              !.defaultHeaders = Tampered(other.defaultHeaders)]
                     ELSE other
        /\ UNCHANGED <<ctor, baseUrl, httpClient, clientOf, invocations,
                       requests>>

\* a client, constructed with a transport and the default base URL, whose
\* transport edits the header mappings it is handed
EditingTransportInit ==
    Init /\ ~IsUndefined(ctor.httpClient) /\ IsUndefined(ctor.baseUrl)
EditingTransportNext == Next \/ TransportEditsHeaders
EditingTransportSpec ==
    EditingTransportInit /\ [][EditingTransportNext]_vars

\* the job queue of the engine is run to its end: the job that settles the
\* promise of a method is run once the transport's promise is settled
FairSpec ==
    Spec /\ \A caller \in Callers : WF_vars(OperationSettles(caller))

(***************************************************************************)
(* Vocabulary of the properties                                            *)
(***************************************************************************)
\* the caller's operation has made its call on the transport
Made(caller) == ~IsUndefined(ops[caller].call)
TheCall(caller) == ops[caller].call[1]
Header(caller, name) ==
    IF name \in DOMAIN TheCall(caller).headers
    THEN Some(TheCall(caller).headers[name]) ELSE Undefined

BodyOperations ==
    {"send", "registerWebhook", "exportInbox", "updateSettings", "patchSettings"}
BodylessOperations ==
    {"getState", "getWebhooks", "deleteWebhook", "getDevices", "deleteDevice",
     "getHealth", "getLogs", "getSettings"}

\* the endpoint table: verb and path of each operation
EndpointVerb(op) ==
    CASE op \in {"send", "registerWebhook", "exportInbox"} -> "POST"
      [] op \in {"deleteWebhook", "deleteDevice"} -> "DELETE"
      [] op = "updateSettings" -> "PUT"
      [] op = "patchSettings" -> "PATCH"
      [] OTHER -> "GET"

EndpointPath(op, args) ==
    CASE op = "send" -> "/message"
      [] op = "getState" -> "/message/" \o args.messageId
      [] op = "getWebhooks" -> "/webhooks"
      [] op = "registerWebhook" -> "/webhooks"
      [] op = "deleteWebhook" -> "/webhooks/" \o args.webhookId
      [] op = "getDevices" -> "/devices"
      [] op = "deleteDevice" -> "/devices/" \o args.deviceId
      [] op = "getHealth" -> "/health"
      [] op = "exportInbox" -> "/inbox/export"
      [] op = "getLogs" -> "/logs"
      [] op = "getSettings" -> "/settings"
      [] op = "updateSettings" -> "/settings"
      [] op = "patchSettings" -> "/settings"

\* the part of a URL string before its first "?"
BeforeQuery(url) == SubSeq(url, 1, FindFirst(url, {"?"}, 1) - 1)
HasQuery(url) == FindFirst(url, {"?"}, 1) <= Len(url)

(***************************************************************************)
(* C1.  Every call an operation makes on the transport has the verb of the *)
(* endpoint table and the URL made of the client's base URL followed by    *)
(* the path of the endpoint table (and, for send and getLogs, possibly a   *)
(* query string after it).                                                 *)
(***************************************************************************)
C1_EndpointTable ==
    \A caller \in Callers :
        Made(caller) =>
            LET url == TheCall(caller).url
                expected ==
                    baseUrl \o EndpointPath(ops[caller].op, ops[caller].args)
            IN  /\ TheCall(caller).verb = EndpointVerb(ops[caller].op)
                /\ \/ url = expected
                   \/ /\ ops[caller].op \in {"send", "getLogs"}
                      /\ StartsWith(url, expected \o "?")

(***************************************************************************)
(* C2.  With a non-empty login every call on the transport carries         *)
(* Authorization = "Basic " + base64(login + ":" + password) of the        *)
(* constructor's arguments, the same value on every call.                  *)
(***************************************************************************)
C2_BasicAuthorization ==
    ctor.login # "" =>
        \A caller \in Callers :
            Made(caller) =>
                /\ Header(caller, "Authorization")
                       = Some("Basic " \o btoa(ctor.login \o ":" \o ctor.password))
                /\ (ctor.login = "login" /\ ctor.password = "password") =>
                       Header(caller, "Authorization")
                           = Some("Basic bG9naW46cGFzc3dvcmQ=")

\* both callers have a call in flight on a client built with a login
C2_Witness ==
    /\ ctor.login = "login"
    /\ \A caller \in Callers : Made(caller)
    /\ ops["caller1"].op # ops["caller2"].op

(***************************************************************************)
(* C3.  With an empty login the second constructor argument is a bearer    *)
(* token and every call carries Authorization = "Bearer " + token; with a  *)
(* non-empty login the Basic scheme is used.                               *)
(***************************************************************************)
C3_BearerWhenLoginEmpty ==
    \A caller \in Callers :
        Made(caller) =>
            IF ctor.login = ""
            THEN Header(caller, "Authorization") = Some("Bearer " \o ctor.password)
            ELSE /\ ~IsUndefined(Header(caller, "Authorization"))
                 /\ StartsWith(Header(caller, "Authorization")[1], "Basic ")

(***************************************************************************)
(* C4.  Every call on the transport carries the header User-Agent with the *)
(* value "android-sms-gateway/3.0 (client; js)".                           *)
(***************************************************************************)
C4_UserAgent ==
    \A caller \in Callers :
        Made(caller) =>
            Header(caller, "User-Agent")
                = Some("android-sms-gateway/3.0 (client; js)")

(***************************************************************************)
(* C5.  The header mapping of a call has exactly the keys User-Agent and   *)
(* Authorization when the operation carries no body, and exactly those two *)
(* plus Content-Type = "application/json" when it carries one; Content-Type*)
(* is present if and only if the call has a body.                          *)
(***************************************************************************)
C5_HeaderKeys ==
    \A caller \in Callers :
        Made(caller) =>
            LET call == TheCall(caller)
                keys == DOMAIN call.headers
            IN  /\ ops[caller].op \in BodylessOperations =>
                       /\ keys = {"User-Agent", "Authorization"}
                       /\ IsUndefined(call.body)
                /\ ops[caller].op \in BodyOperations =>
                       /\ keys = {"Content-Type", "User-Agent", "Authorization"}
                       /\ call.headers["Content-Type"] = "application/json"
                       /\ ~IsUndefined(call.body)
                /\ ("Content-Type" \in keys) <=> ~IsUndefined(call.body)

\* a call with a body and a call without one are in flight together
C5_Witness ==
    /\ Made("caller1") /\ ops["caller1"].op = "updateSettings"
    /\ Made("caller2") /\ ops["caller2"].op = "deleteDevice"

(***************************************************************************)
(* C6.  getState, deleteWebhook and deleteDevice put the identifier into   *)
(* the URL verbatim: the URL is the base URL, the path prefix and the      *)
(* identifier, character for character.                                    *)
(***************************************************************************)
C6_IdentifierVerbatim ==
    \A caller \in Callers :
        Made(caller) =>
            LET url == TheCall(caller).url
                args == ops[caller].args
            IN  /\ ops[caller].op = "getState" =>
                       url = baseUrl \o "/message/" \o args.messageId
                /\ ops[caller].op = "deleteWebhook" =>
                       url = baseUrl \o "/webhooks/" \o args.webhookId
                /\ ops[caller].op = "deleteDevice" =>
                       url = baseUrl \o "/devices/" \o args.deviceId

\* an identifier with characters that an encoder would change went through
C6_Witness ==
    /\ Made("caller1") /\ ops["caller1"].op = "getState"
    /\ ops["caller1"].args.messageId = "a b/?#%"
    /\ EndsWith(TheCall("caller1").url, "/message/a b/?#%")
    /\ Made("caller2") /\ ops["caller2"].op = "deleteDevice"
    /\ ops["caller2"].args.deviceId = "a b/?#%"

(***************************************************************************)
(* C7.  send puts skipPhoneValidation into the query of the /message URL   *)
(* exactly when the option was set to a boolean: "?skipPhoneValidation=true"*)
(* for true, "?skipPhoneValidation=false" for false, and no query string   *)
(* when the options are absent, empty or have the field undefined; the     *)
(* part before the query is the same for every send.                       *)
(***************************************************************************)
SkipPhoneValidationOf(args) ==
    IF IsUndefined(args.options) THEN Undefined
    ELSE Get(args.options[1], "skipPhoneValidation")

C7_SkipPhoneValidation ==
    \A caller \in Callers :
        (Made(caller) /\ ops[caller].op = "send") =>
            LET url == TheCall(caller).url
                option == SkipPhoneValidationOf(ops[caller].args)
            IN  /\ option = Some(TRUE) =>
                       EndsWith(url, "/message?skipPhoneValidation=true")
                /\ option = Some(FALSE) =>
                       EndsWith(url, "/message?skipPhoneValidation=false")
                /\ IsUndefined(option) =>
                       EndsWith(url, "/message") /\ ~HasQuery(url)
                /\ \A peer \in Callers :
                       (Made(peer) /\ ops[peer].op = "send") =>
                           BeforeQuery(TheCall(peer).url) = BeforeQuery(url)

\* a send with the option set to false beside a send with empty options
C7_Witness ==
    /\ Made("caller1") /\ ops["caller1"].op = "send"
    /\ SkipPhoneValidationOf(ops["caller1"].args) = Some(FALSE)
    /\ Made("caller2") /\ ops["caller2"].op = "send"
    /\ ops["caller2"].args.options = Some(NoKeys)

C9_ExportBody ==
    \A caller \in Callers :
        (Made(caller) /\ ops[caller].op = "exportInbox") =>
            LET request == ops[caller].args.request
                body == TheCall(caller).body
            IN  /\ ~IsUndefined(body)
                /\ DOMAIN body[1] = {"deviceId", "since", "until"}
                /\ body[1].deviceId = request.deviceId
                /\ body[1].since = toISOString(request.since)
                /\ body[1].until = toISOString(request.until)
                /\ request.since = Date2024 =>
                       body[1].since = "2024-01-01T00:00:00.000Z"
                /\ request.until = DateLeap =>
                       body[1].until = "2024-02-29T23:59:59.999Z"

\* an export whose request carries a fourth field has reached the transport
C9_Witness ==
    \E caller \in Callers :
        /\ Made(caller) /\ ops[caller].op = "exportInbox"
        /\ "extra" \in DOMAIN ops[caller].args.request
        /\ TheCall(caller).body[1].since = "2024-01-01T00:00:00.000Z"

(***************************************************************************)
(* C10.  The body send, registerWebhook and updateSettings hand to the     *)
(* transport is the caller's request object field for field: no key added, *)
(* none removed, no value changed; a message with only message and         *)
(* phoneNumbers gives a body with exactly those two keys.                  *)
(***************************************************************************)
RequestOf(caller) ==
    IF ops[caller].op = "updateSettings" THEN ops[caller].args.settings
    ELSE ops[caller].args.request

C10_BodyIsRequest ==
    \A caller \in Callers :
        (Made(caller)
            /\ ops[caller].op \in {"send", "registerWebhook", "updateSettings"}) =>
            LET request == RequestOf(caller)
                body == TheCall(caller).body
            IN  /\ ~IsUndefined(body)
                /\ DOMAIN body[1] = DOMAIN request
                /\ \A key \in DOMAIN request : body[1][key] = request[key]
                /\ (ops[caller].op = "send"
                        /\ DOMAIN request = {"message", "phoneNumbers"}) =>
                       DOMAIN body[1] = {"message", "phoneNumbers"}

\* a send of the two-field message beside a registerWebhook
C10_Witness ==
    /\ Made("caller1") /\ ops["caller1"].op = "send"
    /\ ops["caller1"].args.request = MessageMinimal
    /\ Made("caller2") /\ ops["caller2"].op = "registerWebhook"

(***************************************************************************)
(* C11.  The body patchSettings hands to the transport is the caller's     *)
(* partial settings object and nothing else: the same groups and, in each  *)
(* group, the same fields with the same values, also when getSettings,     *)
(* updateSettings or patchSettings were invoked on the client before.      *)
(***************************************************************************)
C11_PatchBody ==
    \A caller \in Callers :
        (Made(caller) /\ ops[caller].op = "patchSettings") =>
            LET settings == ops[caller].args.settings
                body == TheCall(caller).body
            IN  /\ ~IsUndefined(body)
                /\ DOMAIN body[1] = DOMAIN settings
                /\ \A group \in DOMAIN settings :
                      /\ DOMAIN body[1][group] = DOMAIN settings[group]
                      /\ body[1][group] = settings[group]

\* a one-field patch while the full settings an earlier updateSettings sent
\* have been acknowledged, as the third invocation on the client
C11_Witness ==
    /\ invocations = 3
    /\ ops["caller1"].op = "updateSettings"
    /\ ops["caller1"].args.settings = SettingsFull
    /\ ops["caller1"].state = "resolved"
    /\ Made("caller2") /\ ops["caller2"].op = "patchSettings"
    /\ ops["caller2"].args.settings = SettingsPartial

(***************************************************************************)
(* C12.  send, getState, getWebhooks, registerWebhook, getDevices,         *)
(* getHealth, getLogs and getSettings resolve with the very value their    *)
(* call on the transport resolved with, whatever that value is.            *)
(***************************************************************************)
ValueOperations ==
    {"send", "getState", "getWebhooks", "registerWebhook", "getDevices",
     "getHealth", "getLogs", "getSettings"}

C12_ResolvesWithTransportValue ==
    \A caller \in Callers :
        (ops[caller].op \in ValueOperations
            /\ ops[caller].state = "resolved") =>
            /\ ops[caller].transport = "resolved"
            /\ ops[caller].value = ops[caller].transportValue

\* a getState resolved with the transport's response beside a send resolved
\* with the undefined the transport gave it
C12_Witness ==
    /\ ops["caller1"].op = "getState" /\ ops["caller1"].state = "resolved"
    /\ ops["caller1"].transportValue = Some("response")
    /\ ops["caller2"].op = "send" /\ ops["caller2"].state = "resolved"
    /\ ops["caller2"].transportValue = Undefined

(***************************************************************************)
(* C13.  deleteWebhook and deleteDevice resolve with undefined whenever    *)
(* their DELETE call on the transport resolves, whatever value the         *)
(* transport resolved it with.                                             *)
(***************************************************************************)
C13_DeleteResolvesUndefined ==
    \A caller \in Callers :
        (ops[caller].op \in {"deleteWebhook", "deleteDevice"}
            /\ ops[caller].transport = "resolved"
            /\ ops[caller].state # "pending") =>
            /\ ops[caller].state = "resolved"
            /\ IsUndefined(ops[caller].value)

(***************************************************************************)
(* C14.  When the call of an operation on the transport fails with an      *)
(* error, the operation fails with that same error: it does not resolve,   *)
(* the error is not replaced by another, and the client still holds the    *)
(* base URL, transport and headers its constructor computed.               *)
(***************************************************************************)
Constructed ==
    Client(ctor.login, ctor.password, ctor.httpClient, ctor.baseUrl)

C14_FailurePropagated ==
    \A caller \in Callers :
        ops[caller].transport = "rejected" =>
            /\ ops[caller].state \in {"pending", "rejected"}
            /\ IsUndefined(ops[caller].value)
            /\ ops[caller].state = "rejected" =>
                  /\ ops[caller].reason = ops[caller].transportReason
                  /\ ops[caller].reason[1] \in TransportErrors
            /\ baseUrl = Constructed.baseUrl
            /\ httpClient = Constructed.httpClient
            /\ defaultHeaders = Constructed.defaultHeaders

\* two operations failed, each with the error of its own call
C14_Witness ==
    /\ ops["caller1"].op = "deleteDevice"
    /\ ops["caller1"].transport = "rejected"
    /\ ops["caller1"].state = "rejected"
    /\ ops["caller1"].reason = Some("NetworkError")
    /\ ops["caller2"].op = "patchSettings"
    /\ ops["caller2"].transport = "rejected"
    /\ ops["caller2"].state = "rejected"
    /\ ops["caller2"].reason = Some("HttpError")

(***************************************************************************)
(* C15.  Every invocation of an operation makes exactly one call on the    *)
(* transport of the client, whatever was invoked before and however the    *)
(* call ends: as many calls have been made as operations invoked, and      *)
(* every operation under way or completed has made its call.               *)
(***************************************************************************)
C15_OneCallPerInvocation ==
    /\ requests = invocations
    /\ \A caller \in Callers :
          ops[caller].state # "idle" =>
              /\ Made(caller)
              /\ ops[caller].transport # "none"

(***************************************************************************)
(* C16.  No failure originates in the client: whatever base URL the        *)
(* client was constructed with and whatever the arguments, date-times      *)
(* without an ISO-8601 rendering included, an operation fails only if its  *)
(* call on the transport was made and failed.                              *)
(***************************************************************************)
C16_NoClientFailure ==
    \A caller \in Callers :
        ops[caller].state = "rejected" =>
            /\ Made(caller)
            /\ ops[caller].transport = "rejected"

(***************************************************************************)
(* C17.  No operation validates its input: a send with an empty list of    *)
(* phone numbers or an empty message, and a registerWebhook with a URL     *)
(* that is not well formed, still make their one call on the transport,    *)
(* with the request as its body.                                           *)
(***************************************************************************)
InvalidInput(caller) ==
    \/ /\ ops[caller].op = "send"
       /\ \/ ops[caller].args.request.message = ""
          \/ Len(ops[caller].args.request.phoneNumbers) = 0
    \/ /\ ops[caller].op = "registerWebhook"
       /\ ~ParseURL(ops[caller].args.request.url).ok

C17_NoValidation ==
    \A caller \in Callers :
        InvalidInput(caller) =>
            /\ Made(caller)
            /\ TheCall(caller).body = Some(ops[caller].args.request)

(***************************************************************************)
(* C18.  With two operations in flight on the client at once, in whatever  *)
(* order they were started and their calls complete, the transport gets    *)
(* for each the URL, headers and body the operation produces on its own,   *)
(* and each operation completes with the outcome of its own call, not of   *)
(* the other's.                                                            *)
(***************************************************************************)
\* what the operation does when it is the only one invoked on the client
Alone(this, op, args) ==
    CASE op = "send" -> send(this, args.request, args.options)
      [] op = "getState" -> getState(this, args.messageId)
      [] op = "getWebhooks" -> getWebhooks(this)
      [] op = "registerWebhook" -> registerWebhook(this, args.request)
      [] op = "deleteWebhook" -> deleteWebhook(this, args.webhookId)
      [] op = "getDevices" -> getDevices(this)
      [] op = "deleteDevice" -> deleteDevice(this, args.deviceId)
      [] op = "getHealth" -> getHealth(this)
      [] op = "exportInbox" -> exportInbox(this, args.request)
      [] op = "getLogs" -> getLogs(this, args.from, args.to)
      [] op = "getSettings" -> getSettings(this)
      [] op = "updateSettings" -> updateSettings(this, args.settings)
      [] op = "patchSettings" -> patchSettings(this, args.settings)

C18_ConcurrentIndependence ==
    \A caller \in Callers :
        Made(caller) =>
            /\ ops[caller].call
                  = Alone(This(caller), ops[caller].op, ops[caller].args).call
            /\ ops[caller].transport = "pending" =>
                  ops[caller].state = "pending"
            /\ ops[caller].state = "resolved" =>
                  /\ ops[caller].transport = "resolved"
                  /\ ops[caller].value = ops[caller].transportValue
            /\ ops[caller].state = "rejected" =>
                  /\ ops[caller].transport = "rejected"
                  /\ ops[caller].reason = ops[caller].transportReason

\* a send and an updateSettings in flight together, both calls made and
\* neither completed yet
C18_Witness ==
    /\ ops["caller1"].op = "updateSettings"
    /\ ops["caller1"].transport = "pending"
    /\ ops["caller1"].state = "pending"
    /\ ops["caller2"].op = "send"
    /\ ops["caller2"].transport = "pending"
    /\ ops["caller2"].state = "pending"
    /\ TheCall("caller1").body # TheCall("caller2").body
    /\ TheCall("caller1").url # TheCall("caller2").url

(***************************************************************************)
(* C19.  The base URL, the transport and the default headers of the client *)
(* are fixed at construction: after any sequence of operations, succeeded, *)
(* failed or concurrent, they are what the constructor computed, and no    *)
(* step of an operation changes them.                                      *)
(***************************************************************************)
C19_StoredStateFixed ==
    /\ [](/\ baseUrl = Constructed.baseUrl
          /\ httpClient = Constructed.httpClient
          /\ defaultHeaders = Constructed.defaultHeaders)
    /\ [][<<baseUrl, httpClient, defaultHeaders>>'
            = <<baseUrl, httpClient, defaultHeaders>>]_vars

\* three operations invoked on a client with a base URL of its own, one
\* with a body succeeded and one failed
C19_Witness ==
    /\ invocations = 3
    /\ ~IsUndefined(ctor.baseUrl)
    /\ ops["caller1"].op \in BodyOperations
    /\ ops["caller1"].state = "resolved"
    /\ ops["caller2"].state = "rejected"
    /\ baseUrl = ctor.baseUrl[1]
    /\ DOMAIN defaultHeaders = {"User-Agent", "Authorization"}

(***************************************************************************)
(* C20.  A client constructed without a base URL addresses the production  *)
(* endpoint: the URL of every call of every operation is                   *)
(* "https://api.sms-gate.app/3rdparty/v1" followed by the path of the      *)
(* operation (and by the query string, where the operation has one).       *)
(***************************************************************************)
C20_DefaultBaseUrl ==
    \A caller \in Callers :
        (IsUndefined(ctor.baseUrl) /\ Made(caller)) =>
            LET url == TheCall(caller).url
                expected ==
                    "https://api.sms-gate.app/3rdparty/v1"
                        \o EndpointPath(ops[caller].op, ops[caller].args)
            IN  \/ url = expected
                \/ /\ ops[caller].op \in {"send", "getLogs"}
                   /\ StartsWith(url, expected \o "?")

\* on a client constructed without a base URL, a send with a query string
\* beside a deleteWebhook
C20_Witness ==
    /\ IsUndefined(ctor.baseUrl)
    /\ Made("caller1") /\ ops["caller1"].op = "send"
    /\ HasQuery(TheCall("caller1").url)
    /\ Made("caller2") /\ ops["caller2"].op = "deleteWebhook"
    /\ TheCall("caller2").url
          = "https://api.sms-gate.app/3rdparty/v1/webhooks/123"

(***************************************************************************)
(* C21.  As long as the call of an operation on the transport has not      *)
(* completed, the operation has not completed: the client settles no       *)
(* operation ahead of its call, by a timeout or a cancellation of its own, *)
(* so an operation whose call never completes stays pending for ever.      *)
(***************************************************************************)
C21_NotBeforeTransport ==
    /\ [](\A caller \in Callers :
            ops[caller].transport = "pending" => ops[caller].state = "pending")
    /\ [][\A caller \in Callers :
            (ops[caller].transport = "pending"
                /\ ops'[caller].transport = "pending") =>
                ops'[caller].state = "pending"]_vars

\* every invocation of the behaviour made, one operation completed and the
\* other still waiting for its call
C21_Witness ==
    /\ invocations = MaxOps
    /\ ops["caller1"].transport = "pending"
    /\ ops["caller1"].state = "pending"
    /\ ops["caller2"].state = "resolved"

(***************************************************************************)
(* C27.  Every operation whose call on the transport completes completes   *)
(* itself: once the call has resolved the operation resolves, once the     *)
(* call has been rejected the operation is rejected; no step of the client *)
(* stands in between.                                                      *)
(***************************************************************************)
C27_EventuallyCompletes ==
    \A caller \in Callers :
        /\ (ops[caller].transport = "resolved")
               ~> (ops[caller].state = "resolved")
        /\ (ops[caller].transport = "rejected")
               ~> (ops[caller].state = "rejected")

\* a deleteDevice rejected after its call was, beside a send whose call has
\* resolved and which is about to
C27_Witness ==
    /\ ops["caller1"].op = "deleteDevice"
    /\ ops["caller1"].transport = "rejected"
    /\ ops["caller1"].state = "rejected"
    /\ ops["caller2"].op = "send"
    /\ ops["caller2"].transport = "resolved"
    /\ ops["caller2"].state = "pending"

(***************************************************************************)
(* C30.  Instances are isolated from one another: with two clients built   *)
(* from different credentials, base URLs and transports, however their     *)
(* operations interleave, each call goes to the transport of the client it *)
(* was invoked on, with the Authorization header of that client and a URL  *)
(* made from the base URL of that client, never those of the other.        *)
(***************************************************************************)
\* the instance the caller's operation was invoked on, and the one it was
\* not: base URL, transport and headers as they are stored
Stored ==
    [baseUrl |-> baseUrl, httpClient |-> httpClient,
     defaultHeaders |-> defaultHeaders]
Own(caller) == IF clientOf[caller] = "client" THEN Stored ELSE other
Foreign(caller) == IF clientOf[caller] = "client" THEN other ELSE Stored

C30_InstancesIsolated ==
    \A caller \in Callers :
        Made(caller) =>
            LET own == Own(caller)
                foreign == Foreign(caller)
                path == EndpointPath(ops[caller].op, ops[caller].args)
                url == TheCall(caller).url
            IN  /\ TheCall(caller).on = own.httpClient[1]
                /\ TheCall(caller).on # foreign.httpClient[1]
                /\ Header(caller, "Authorization")
                      = Some(own.defaultHeaders["Authorization"])
                /\ Header(caller, "Authorization")
                      # Some(foreign.defaultHeaders["Authorization"])
                /\ IF ops[caller].op \in {"send", "getLogs"}
                   THEN BeforeQuery(url)
                          = URLtoString(ParseURL(own.baseUrl \o path))
                   ELSE url = own.baseUrl \o path
                /\ ~StartsWith(url, foreign.baseUrl)

\* the same operation in flight on both instances, the call of the one
\* completed before that of the other
C30_Witness ==
    /\ clientOf["caller1"] # clientOf["caller2"]
    /\ ops["caller1"].op = "send" /\ ops["caller2"].op = "send"
    /\ ops["caller1"].args = ops["caller2"].args
    /\ ops["caller1"].transport = "pending"
    /\ ops["caller2"].state = "resolved"
    /\ TheCall("caller1").on # TheCall("caller2").on

(***************************************************************************)
(* C23.  A client constructed with a login and a password only, without a  *)
(* transport, is usable: its operations make their requests, through a     *)
(* transport of the client's own, instead of failing for want of one.      *)
(***************************************************************************)
\* the operation makes a call when the client has a transport
CallsGivenTransport(caller) ==
    LET this == [This(caller) EXCEPT !.httpClient = Some(Transport)]
    IN  ~IsUndefined(Alone(this, ops[caller].op, ops[caller].args).call)

C23_UsableWithoutTransport ==
    \A caller \in Callers :
        (IsUndefined(ctor.httpClient)
            /\ ops[caller].state # "idle"
            /\ CallsGivenTransport(caller)) =>
            /\ Made(caller)
            /\ ops[caller].transport # "none"

(***************************************************************************)
(* C22.  The client offers token management: generateToken, which calls    *)
(* the transport with POST on "/auth/token" under the base URL, with the   *)
(* scopes and the optional ttl as body, and resolves with the transport's  *)
(* response, and revokeToken, which calls the transport on the endpoint of *)
(* the token id and resolves with no value.                                *)
(***************************************************************************)
C22_TokenManagement ==
    /\ "generateToken" \in Methods
    /\ "revokeToken" \in Methods
    /\ \A caller \in Callers :
          /\ (Made(caller) /\ ops[caller].op = "generateToken") =>
                /\ TheCall(caller).verb = "POST"
                /\ TheCall(caller).url = This(caller).baseUrl \o "/auth/token"
                /\ ~IsUndefined(TheCall(caller).body)
                /\ "scopes" \in DOMAIN TheCall(caller).body[1]
          /\ (Made(caller) /\ ops[caller].op = "revokeToken") =>
                /\ StartsWith(TheCall(caller).url,
                              This(caller).baseUrl \o "/auth/token/")
                /\ ops[caller].state = "resolved" =>
                      IsUndefined(ops[caller].value)

(***************************************************************************)
(* C28.  Whatever base URL B the client was constructed with, every        *)
(* operation addresses B character for character: send without options    *)
(* calls B + "/message", getLogs without arguments B + "/logs", and the    *)
(* other operations B + their path; no call has a URL in which B was       *)
(* rewritten, normalised or encoded anew.                                  *)
(***************************************************************************)
C28_BaseUrlVerbatim ==
    \A caller \in Callers :
        Made(caller) =>
            LET B == This(caller).baseUrl
                op == ops[caller].op
                args == ops[caller].args
                url == TheCall(caller).url
            IN  /\ StartsWith(url, B)
                /\ op \notin {"send", "getLogs"} =>
                      url = B \o EndpointPath(op, args)
                /\ (op = "send" /\ IsUndefined(args.options)) =>
                      url = B \o "/message"
                /\ (op = "getLogs" /\ IsUndefined(args.from)
                        /\ IsUndefined(args.to)) =>
                      url = B \o "/logs"

(***************************************************************************)
(* C29.  The merge of the headers of a call does not depend on its order:  *)
(* the keys an operation adds (Content-Type) are not among the stored keys *)
(* (User-Agent, Authorization), so the stored headers laid over the        *)
(* operation's and the operation's laid over the stored give the mapping   *)
(* of the call, and no header of an operation replaces the Authorization   *)
(* or User-Agent value.                                                    *)
(***************************************************************************)
\* the headers the operation adds to the stored ones
SpecificHeaders(op) ==
    IF op \in BodyOperations THEN "Content-Type" :> "application/json"
    ELSE NoKeys

C29_MergeOrderIndependent ==
    \A caller \in Callers :
        Made(caller) =>
            LET stored == This(caller).defaultHeaders
                specific == SpecificHeaders(ops[caller].op)
                headers == TheCall(caller).headers
            IN  /\ DOMAIN specific \cap DOMAIN stored = {}
                /\ headers = ObjectSpread(specific, stored)
                /\ headers = ObjectSpread(stored, specific)
                /\ \A key \in DOMAIN stored : headers[key] = stored[key]
                /\ \A key \in DOMAIN specific : headers[key] = specific[key]

\* a call with a content type beside one without
C29_Witness ==
    /\ Made("caller1") /\ ops["caller1"].op = "patchSettings"
    /\ DOMAIN TheCall("caller1").headers
          = {"Content-Type", "User-Agent", "Authorization"}
    /\ Made("caller2") /\ ops["caller2"].op = "getDevices"
    /\ DOMAIN TheCall("caller2").headers = {"User-Agent", "Authorization"}

(***************************************************************************)
(* C26.  The call an operation makes on the transport is a function of the *)
(* arguments of the constructor and of the operation's own arguments only: *)
(* whatever was invoked before, whatever the transport answered and        *)
(* whatever failed, the same operation with the same arguments gives the   *)
(* same verb, URL, headers and body.                                       *)
(***************************************************************************)
\* the arguments the instance of the caller was constructed with
OwnCtor(caller) == IF clientOf[caller] = "client" THEN ctor ELSE other.ctor

\* what the constructor computes, for each of the configurations
Constructions == [c \in Configs |-> New(c)]

C26_CallFromConfigAndArguments ==
    \A caller \in Callers :
        ops[caller].state # "idle" =>
            /\ ops[caller].call
                  = Alone(Constructions[OwnCtor(caller)], ops[caller].op,
                          ops[caller].args).call
            /\ \A peer \in Callers :
                  (/\ OwnCtor(peer) = OwnCtor(caller)
                   /\ ops[peer].op = ops[caller].op
                   /\ ops[peer].args = ops[caller].args) =>
                      ops[peer].call = ops[caller].call

\* the same getHealth twice, once as the first operation on the client and
\* once after two others, one of which has failed
C26_Witness ==
    /\ invocations = 3
    /\ ops["caller1"].op = "getHealth" /\ Made("caller1")
    /\ ops["caller1"].state = "rejected"
    /\ ops["caller2"].op = "getHealth" /\ Made("caller2")
    /\ ops["caller2"].state = "pending"
    /\ TheCall("caller1") = TheCall("caller2")

(***************************************************************************)
(* C24.  The header mapping handed to the transport is a mapping made for  *)
(* that call: when a transport adds, changes or deletes entries in a       *)
(* mapping it received, the stored headers of the client stay what the     *)
(* constructor computed, the mapping of a call running at the same time is *)
(* not touched, and every call, the later ones included, receives the      *)
(* stored headers and its own.                                             *)
(***************************************************************************)
\* the transport has edited the mapping of the caller's call
Edited(caller) ==
    Made(caller) /\ ops[caller].mapping # TheCall(caller).headers

C24_FreshHeaderMapping ==
    /\ [](/\ defaultHeaders = Constructions[ctor].defaultHeaders
          /\ \A caller \in Callers :
                Made(caller) =>
                    /\ TheCall(caller).headersObject # "defaultHeaders"
                    /\ TheCall(caller).headers
                          = ObjectSpread(SpecificHeaders(ops[caller].op),
                                         Constructions[ctor].defaultHeaders))
    /\ [][\A caller, peer \in Callers :
            (/\ caller # peer
             /\ ops'[caller].mapping # ops[caller].mapping
             /\ Made(caller) /\ ops'[caller].call = ops[caller].call
             /\ Made(peer) /\ ops'[peer].call = ops[peer].call) =>
                ops'[peer].mapping = ops[peer].mapping]_vars

\* the transport has edited the mapping of a getDevices still under way; a
\* getDevices invoked after that has been handed the headers as stored
C24_Witness ==
    /\ ops["caller1"].op = "getDevices" /\ Edited("caller1")
    /\ "User-Agent" \notin DOMAIN ops["caller1"].mapping
    /\ ops["caller2"].op = "getDevices" /\ Made("caller2")
    /\ ~Edited("caller2")
    /\ ops["caller2"].state = "resolved"
    /\ TheCall("caller2").headers = defaultHeaders

(***************************************************************************)
(* C25.  No operation modifies the objects its caller passes in: when      *)
(* send, registerWebhook, exportInbox, updateSettings or patchSettings has *)
(* returned, whether it succeeds or fails, the caller's object has the     *)
(* keys and values it had before; the since and until of an exportInbox    *)
(* are still the caller's date-times, the ISO strings being in the body of *)
(* the call only.                                                          *)
(***************************************************************************)
C25_ArgumentsUntouched ==
    \A caller \in Callers :
        ops[caller].op \in BodyOperations =>
            /\ DOMAIN ops[caller].after = DOMAIN ops[caller].args
            /\ ops[caller].after = ops[caller].args
            /\ (ops[caller].op = "exportInbox" /\ Made(caller)) =>
                  LET request == ops[caller].after.request
                      body == TheCall(caller).body[1]
                  IN  /\ request.since = ops[caller].args.request.since
                      /\ request.until = ops[caller].args.request.until
                      /\ request.since.valid /\ request.until.valid
                      /\ body.since = toISOString(request.since)
                      /\ body.until = toISOString(request.until)

\* an exportInbox that succeeded beside a send that failed
C25_Witness ==
    /\ ops["caller1"].op = "exportInbox" /\ Made("caller1")
    /\ ops["caller1"].state = "resolved"
    /\ ops["caller1"].after.request.since = Date2024
    /\ ops["caller2"].op = "send"
    /\ ops["caller2"].state = "rejected"
    /\ ops["caller2"].after.request = MessageFull

====
